---- MODULE Spec2Model ----
(***************************************************************************)
(* A model of core/domain/classifier_services.py: the StringClassifier     *)
(* (labeled LDA fitted by collapsed Gibbs sampling).                       *)
(*                                                                         *)
(* Conventions.                                                            *)
(*  - A classifier object is a record holding exactly the attributes that  *)
(*    the Python object has: after __init__ only _alpha and _beta, after   *)
(*    load_examples or from_dict all thirteen.                             *)
(*  - A numpy array is a record [dtype, shape, data]; data is a function   *)
(*    over 0..n-1 (of such functions for a matrix).  Python lists that are *)
(*    indexed by a doc id or a token position are functions over 0..n-1    *)
(*    too; local lists that are only iterated are sequences.               *)
(*  - A text is a sequence of atoms; the atom " " is whitespace, every     *)
(*    other atom is a piece of a word.  A word is a sequence of pieces.    *)
(*  - The hyperparameters and the thresholds are rationals [num, den]; the *)
(*    probabilities are computed exactly.  Where the floating-point result *)
(*    of the code is not decided by the exact value (a ratio that equals   *)
(*    the threshold exactly), both outcomes are kept.                      *)
(*  - numpy.random.multinomial(1, p).argmax() is a choice among the indices*)
(*    that the draw can return.  The code runs under Python 2 (xrange,     *)
(*    iteritems, list-valued map), where `/` on integer arrays is floor    *)
(*    division.                                                            *)
(*  - A handler is one action; the set of states it can end in (over all   *)
(*    draws and all iteration orders of sets and dicts) is computed by the *)
(*    ...Outcomes operators.                                               *)
(*  - numpy.random is one generator for the whole process.  Its state is   *)
(*    kept relative to a recorded run (the calls made after a construction,*)
(*    each with the classifier it left): rng = n >= 0 is the state the     *)
(*    generator had in the recorded run after n calls that drew from it    *)
(*    (0: the state numpy.random.seed(4) gives), rng = -1 is any other     *)
(*    state.  A call that asks of the generator in a recorded state what   *)
(*    the recorded call asked gets what the recorded call got.             *)
(***************************************************************************)
EXTENDS Integers, Sequences, FiniteSets, TLC

VARIABLES classifiers, model, ret, rng, runs

vars == <<classifiers, model, ret, rng, runs>>

(***************************************************************************)
(* Bounds and input sets                                                   *)
(***************************************************************************)
MaxDocs == 2

MaxIter == 1

Inst == {"a", "b"}

DEFAULT_LABEL == "_default"

NoIds == [lo |-> 0, hi |-> 0]

Rat(n, d) == [num |-> n, den |-> d]

_DEFAULT_ALPHA == Rat(1, 10)

_DEFAULT_BETA == Rat(1, 1000)

Half == Rat(1, 2)

Thresholds == {Half}

Example(text, labels) == [text |-> text, labels |-> labels]

Examples ==
    { Example(<<"a">>, {}),
      Example(<<"a", " ", "b">>, {"promo"}),
      Example(<<" ", "b">>, {"spam"}),
      Example(<<" ">>, {"spam"}) }

ExampleLists ==
    {<<>>} \cup {<<e>> : e \in Examples} \cup {<<e, f>> : e \in Examples, f \in Examples}

Iterations == {0, MaxIter}

DocIdInputs == (0 - 1)..MaxDocs

(***************************************************************************)
(* Lists and numpy arrays                                                  *)
(***************************************************************************)
Range0(n) == 0..(n - 1)

Len0(f) == Cardinality(DOMAIN f)

EmptyList == [i \in {} |-> 0]

Append0(f, x) == [i \in Range0(Len0(f) + 1) |-> IF i < Len0(f) THEN f[i] ELSE x]

\* a sequence (1..n) as a list (0..n-1)
List0(s) == [i \in Range0(Len(s)) |-> s[i + 1]]

RECURSIVE SumTo(_, _)
SumTo(f, n) == IF n = 0 THEN 0 ELSE f[n - 1] + SumTo(f, n - 1)

\* ndarray.sum() of a vector
Sum0(f) == SumTo(f, Len0(f))

NdArray(dtype, shape, data) == [dtype |-> dtype, shape |-> shape, data |-> data]

\* numpy.zeros(n, dtype=int)
zeros1(n) == NdArray("int", <<n>>, [i \in Range0(n) |-> 0])

\* numpy.zeros((r, c), dtype=int)
zeros2(r, c) == NdArray("int", <<r, c>>, [i \in Range0(r) |-> [j \in Range0(c) |-> 0]])

\* numpy.array(rows, dtype=...) of a list of equally long vectors: an empty
\* list gives the 1-d array of shape (0,)
array_of_rows(rows, dtype) ==
    IF Len(rows) = 0
    THEN NdArray(dtype, <<0>>, EmptyList)
    ELSE NdArray(dtype, <<Len(rows), Len0(rows[1])>>, List0(rows))

\* the dtype numpy.concatenate gives its result
ResultType(t1, t2) == IF t1 = "float" \/ t2 = "float" THEN "float" ELSE "int"

\* numpy.concatenate raises ValueError unless the arrays have the same number
\* of dimensions, that number exceeds the axis, and all other dimensions agree
CanConcatenate(A, B, axis) ==
    /\ Len(A.shape) = Len(B.shape)
    /\ axis < Len(A.shape)
    /\ \A k \in 1..Len(A.shape) : k # axis + 1 => A.shape[k] = B.shape[k]

\* numpy.concatenate((A, B), axis) for 2-d arrays
concatenate(A, B, axis) ==
    IF axis = 0
    THEN NdArray(ResultType(A.dtype, B.dtype),
                 <<A.shape[1] + B.shape[1], A.shape[2]>>,
                 [i \in Range0(A.shape[1] + B.shape[1]) |->
                    IF i < A.shape[1] THEN A.data[i] ELSE B.data[i - A.shape[1]]])
    ELSE NdArray(ResultType(A.dtype, B.dtype),
                 <<A.shape[1], A.shape[2] + B.shape[2]>>,
                 [i \in Range0(A.shape[1]) |->
                    [j \in Range0(A.shape[2] + B.shape[2]) |->
                       IF j < A.shape[2] THEN A.data[i][j] ELSE B.data[i][j - A.shape[2]]]])

\* numpy.concatenate((a, b)) for vectors
concatenate1(A, B) ==
    NdArray(ResultType(A.dtype, B.dtype), <<A.shape[1] + B.shape[1]>>,
            [i \in Range0(A.shape[1] + B.shape[1]) |->
               IF i < A.shape[1] THEN A.data[i] ELSE B.data[i - A.shape[1]]])

(***************************************************************************)
(* The attributes of a classifier                                          *)
(***************************************************************************)
ModelKeys ==
    {"_alpha", "_beta", "_label_count", "_doc_count", "_word_count",
     "_label_to_id", "_word_to_id", "_w_dc", "_b_dl", "_l_dc",
     "_c_dl", "_c_lw", "_c_l"}

\* every attribute that load_examples sets exists (otherwise reading one
\* raises AttributeError)
HasAttrs(self) == ModelKeys \subseteq DOMAIN self

\* StringClassifier.__init__
StringClassifier == [_alpha |-> _DEFAULT_ALPHA, _beta |-> _DEFAULT_BETA]

(***************************************************************************)
(* Registry                                                                *)
(***************************************************************************)
\* dict[key] = value
SetItem(dict, key, value) ==
    [k \in DOMAIN dict \cup {key} |-> IF k = key THEN value ELSE dict[k]]

\* _get_word_id: the classifier after the call
_get_word_id(self, word) ==
    IF word \in DOMAIN self._word_to_id
    THEN self
    ELSE [self EXCEPT !._word_to_id = SetItem(@, word, self._word_count),
                      !._word_count = @ + 1]

\* _get_label_id: the classifier after the call
_get_label_id(self, label) ==
    IF label \in DOMAIN self._label_to_id
    THEN self
    ELSE [self EXCEPT !._label_to_id = SetItem(@, label, self._label_count),
                      !._label_count = @ + 1]

\* map(self._get_word_id, doc) for every doc of docs[k..]: the classifier after
\* the calls
RECURSIVE RegisterWords(_, _)
RegisterWords(self, words) ==
    IF words = <<>> THEN self
    ELSE RegisterWords(_get_word_id(self, Head(words)), Tail(words))

\* the words of a list of docs, in order
RECURSIVE Flatten(_)
Flatten(docs) == IF docs = <<>> THEN <<>> ELSE Head(docs) \o Flatten(Tail(docs))

\* the ids of the words of a doc (all registered)
WordIds(self, doc) == [c \in Range0(Len(doc)) |-> self._word_to_id[doc[c + 1]]]

\* map(self._get_label_id, label_list): a label set is iterated in an order
\* the program does not control; the classifiers the calls can end in
RECURSIVE RegisterLabelSet(_, _)
RegisterLabelSet(self, label_list) ==
    IF label_list = {} THEN {self}
    ELSE UNION {RegisterLabelSet(_get_label_id(self, l), label_list \ {l}) : l \in label_list}

\* [map(self._get_label_id, label_list) for label_list in labels]
RECURSIVE RegisterLabels(_, _)
RegisterLabels(selfs, labels) ==
    IF labels = <<>> THEN selfs
    ELSE RegisterLabels(UNION {RegisterLabelSet(s, Head(labels)) : s \in selfs}, Tail(labels))

\* (mutant) an empty label set permits the default label only
_get_label_vector_default_only(self, labels) ==
    [l \in Range0(self._label_count) |->
        IF \/ \E label \in labels : self._label_to_id[label] = l
           \/ self._label_to_id[DEFAULT_LABEL] = l
        THEN 1 ELSE 0]

\* _get_label_vector (every label is registered when it is called)
_get_label_vector(self, labels) ==
    IF Cardinality(labels) = 0
    THEN [l \in Range0(self._label_count) |-> 1]
    ELSE [l \in Range0(self._label_count) |->
            IF \/ \E label \in labels : self._label_to_id[label] = l
               \/ self._label_to_id[DEFAULT_LABEL] = l
            THEN 1 ELSE 0]

(***************************************************************************)
(* _parse_examples                                                         *)
(***************************************************************************)
\* str.split(): the maximal runs of non-whitespace atoms, in order
RECURSIVE SplitFrom(_, _, _)
SplitFrom(text, i, word) ==
    IF i > Len(text)
    THEN IF word = <<>> THEN <<>> ELSE <<word>>
    ELSE IF text[i] = " "
         THEN (IF word = <<>> THEN <<>> ELSE <<word>>) \o SplitFrom(text, i + 1, <<>>)
         ELSE SplitFrom(text, i + 1, Append(word, text[i]))

split(text) == SplitFrom(text, 1, <<>>)

RECURSIVE _parse_examples(_)
_parse_examples(examples) ==
    IF examples = <<>>
    THEN [docs |-> <<>>, labels |-> <<>>]
    ELSE LET doc == split(Head(examples).text)
             rest == _parse_examples(Tail(examples))
         IN  IF Len(doc) > 0
             THEN [docs |-> <<doc>> \o rest.docs,
                   labels |-> <<Head(examples).labels>> \o rest.labels]
             ELSE rest

(***************************************************************************)
(* Count matrices, initializer, sampler                                    *)
(***************************************************************************)
_update_counting_matrices(self, d, w, l, val) ==
    [self EXCEPT !._c_dl.data[d][l] = @ + val,
                 !._c_lw.data[l][w] = @ + val,
                 !._c_l.data[l] = @ + val]

\* labels / labels.sum() in _init_docs: floor division on an integer array,
\* true division on a float array
Divide(labels, dtype, total) ==
    IF dtype = "int"
    THEN [l \in DOMAIN labels |-> Rat(labels[l] \div total, 1)]
    ELSE [l \in DOMAIN labels |-> Rat(labels[l], total)]

\* numpy.random.multinomial(1, pvals).argmax(), pvals given over a common
\* denominator: category j < n-1 is drawn by a binomial with probability
\* pvals[j] / (what the earlier categories left), the last category takes the
\* trial no earlier one took.  rem is den minus the earlier numerators.
RECURSIVE MultinomialFrom(_, _, _)
MultinomialFrom(pvals, j, rem) ==
    IF j = Len0(pvals) - 1
    THEN {j}
    ELSE (IF pvals[j].num > 0 THEN {j} ELSE {})
         \cup (IF pvals[j].num < rem
               THEN MultinomialFrom(pvals, j + 1, rem - pvals[j].num)
               ELSE {})

MultinomialArgmax(pvals) == MultinomialFrom(pvals, 0, pvals[0].den)

\* the draws _init_docs can make for one token of doc d
InitDraws(self, d) ==
    LET labels == self._b_dl.data[d]
    IN  MultinomialArgmax(Divide(labels, self._b_dl.dtype, Sum0(labels)))

\* the lists l_c that _init_docs can draw for a doc of n tokens
RECURSIVE DrawLists(_, _)
DrawLists(draws, n) ==
    IF n = 0 THEN {EmptyList}
    ELSE {Append0(l_c, l) : l_c \in DrawLists(draws, n - 1), l \in draws}

\* (mutant) only the first token of the doc is counted
CountFirstToken(self, d, l_c, c) ==
    IF Len0(l_c) = 0 THEN self
    ELSE _update_counting_matrices(self, d, self._w_dc[d][0], l_c[0], 1)

\* for w, l in zip(doc, l_c): self._update_counting_matrices(d, w, l, 1)
RECURSIVE CountTokens(_, _, _, _)
CountTokens(self, d, l_c, c) ==
    IF c = Len0(l_c) THEN self
    ELSE CountTokens(_update_counting_matrices(self, d, self._w_dc[d][c], l_c[c], 1),
                     d, l_c, c + 1)

\* the body of the loop of _init_docs for doc d
InitDoc(self, d) ==
    {CountTokens([self EXCEPT !._l_dc = Append0(@, l_c)], d, l_c, 0) :
        l_c \in DrawLists(InitDraws(self, d), Len0(self._w_dc[d]))}

\* _init_docs(doc_ids), doc_ids a sequence
RECURSIVE _init_docs(_, _)
_init_docs(selfs, doc_ids) ==
    IF doc_ids = <<>> THEN selfs
    ELSE _init_docs(UNION {InitDoc(s, Head(doc_ids)) : s \in selfs}, Tail(doc_ids))

Sgn(x) == IF x > 0 THEN 1 ELSE IF x < 0 THEN 0 - 1 ELSE 0

\* the sign of prob_l[l] in _infer_docs (the leave-one-out counts are in self)
ProbSign(self, d, w, l) ==
    LET coeff_a == self._alpha.den * Sum0(self._c_dl.data[d])
                     + self._label_count * self._alpha.num
        coeff_b == self._beta.den * Sum0(self._c_lw.data[l])
                     + self._word_count * self._beta.num
    IN  self._b_dl.data[d][l]
          * Sgn(coeff_a) * Sgn(self._alpha.den * self._c_dl.data[d][l] + self._alpha.num)
          * Sgn(coeff_b) * Sgn(self._beta.den * self._c_lw.data[l][w] + self._beta.num)

\* the labels numpy.random.multinomial(1, prob_l / prob_l.sum()).argmax() can
\* return: those of positive probability
GibbsDraws(self, d, w) == {l \in Range0(self._label_count) : ProbSign(self, d, w, l) > 0}

\* the body of the token loop of _infer_docs for token c of doc d
InferToken(self, d, c) ==
    LET w == self._w_dc[d][c]
        l == self._l_dc[d][c]
        removed == _update_counting_matrices(self, d, w, l, 0 - 1)
    IN  {_update_counting_matrices([removed EXCEPT !._l_dc[d][c] = new_l], d, w, new_l, 1) :
            new_l \in GibbsDraws(removed, d, w)}

RECURSIVE InferDoc(_, _, _)
InferDoc(selfs, d, c) ==
    IF selfs = {} THEN {}
    ELSE LET n == Len0((CHOOSE s \in selfs : TRUE)._w_dc[d])
         IN  IF c = n THEN selfs
             ELSE InferDoc(UNION {InferToken(s, d, c) : s \in selfs}, d, c + 1)

\* _infer_docs(doc_ids)
RECURSIVE _infer_docs(_, _)
_infer_docs(selfs, doc_ids) ==
    IF doc_ids = <<>> THEN selfs
    ELSE _infer_docs(InferDoc(selfs, Head(doc_ids), 0), Tail(doc_ids))

\* _train_docs(iterations, doc_ids): a pass maps every state of the set on its
\* own, so once a pass gives back the set it was given the remaining passes
\* give it back too
RECURSIVE _train_docs(_, _, _)
_train_docs(selfs, iterations, doc_ids) ==
    IF iterations = 0 THEN selfs
    ELSE LET statez == _infer_docs(selfs, doc_ids)
         IN  IF statez = selfs THEN selfs
             ELSE _train_docs(statez, iterations - 1, doc_ids)

\* xrange(lo, hi) as a sequence
xrange(lo, hi) == [i \in 1..(IF hi > lo THEN hi - lo ELSE 0) |-> lo + i - 1]

\* _get_doc_ids(None)
_get_doc_ids(self) == xrange(0, self._doc_count)

(***************************************************************************)
(* load_examples                                                           *)
(***************************************************************************)
\* self.name = value
SetAttr(self, name, value) ==
    [k \in DOMAIN self \cup {name} |-> IF k = name THEN value ELSE self[k]]

\* dict(zip(label_set, xrange(n))): the set is iterated in an order the
\* program does not control, so any numbering of the labels can result
Numberings(label_set) ==
    {f \in [label_set -> Range0(Cardinality(label_set))] :
        \A x \in label_set, y \in label_set : f[x] = f[y] => x = y}

\* the elements of the sets of a sequence of sets
SeqUnion(sets) == UNION {sets[k] : k \in 1..Len(sets)}

\* load_examples, lines 214-220
LoadCounts(self, docs, label_to_id) ==
    [k \in DOMAIN self \cup {"_label_count", "_label_to_id", "_word_count", "_word_to_id", "_doc_count"} |->
        CASE k = "_label_count" -> Cardinality(DOMAIN label_to_id)
          [] k = "_label_to_id" -> label_to_id
          [] k = "_word_count" -> 0
          [] k = "_word_to_id" -> EmptyList
          [] k = "_doc_count" -> Len(docs)
          [] OTHER -> self[k]]

LoadMask(self, labels) ==
    SetAttr(self, "_b_dl",
            array_of_rows([k \in 1..Len(labels) |-> _get_label_vector(self, labels[k])], "int"))

LoadDocs(self, docs) ==
    SetAttr(self, "_w_dc", [d \in Range0(Len(docs)) |-> WordIds(self, docs[d + 1])])

LoadZeros(self) ==
    [k \in DOMAIN self \cup {"_l_dc", "_c_dl", "_c_lw", "_c_l"} |->
        CASE k = "_l_dc" -> EmptyList
          [] k = "_c_dl" -> zeros2(self._doc_count, self._label_count)
          [] k = "_c_lw" -> zeros2(self._label_count, self._word_count)
          [] k = "_c_l" -> zeros1(self._label_count)
          [] OTHER -> self[k]]

LoadSetup(self, docs, labels, label_to_id) ==
    LoadZeros(LoadDocs(RegisterWords(LoadMask(LoadCounts(self, docs, label_to_id), labels),
                                     Flatten(docs)), docs))

\* load_examples(examples, iterations): the classifiers the call can end in
\* (it raises nothing)
LoadOutcomes(self, examples, iterations) ==
    LET parsed == _parse_examples(examples)
        label_set == {DEFAULT_LABEL} \cup SeqUnion(parsed.labels)
    IN  UNION { LET s == LoadSetup(self, parsed.docs, parsed.labels, label_to_id)
                IN  _train_docs(_init_docs({s}, _get_doc_ids(s)), iterations, _get_doc_ids(s)) :
                label_to_id \in Numberings(label_set) }

\* (mutant) the doc-label counts are not assigned
LoadAssignedWithout_c_dl == ModelKeys \ {"_alpha", "_beta", "_c_dl"}

\* the attributes load_examples assigns; _alpha and _beta it only reads
LoadAssigned == ModelKeys \ {"_alpha", "_beta"}

\* Of the instance load_examples reads _alpha and _beta and the attributes it
\* has assigned itself, so the values it assigns are those it assigns on a
\* newly constructed classifier: they are tabulated once per input
LoadTable ==
    UNION { { [examples |-> examples, iterations |-> iterations, self |-> s] :
              s \in LoadOutcomes(StringClassifier, examples, iterations) } :
            examples \in ExampleLists, iterations \in Iterations }

Tabulated(self, examples, iterations) ==
    /\ examples \in ExampleLists
    /\ iterations \in Iterations
    /\ self._alpha = StringClassifier._alpha
    /\ self._beta = StringClassifier._beta

\* the classifiers a load_examples call on self can end in: the assigned
\* attributes take the values of the call, the others keep theirs
LoadResults(self, examples, iterations) ==
    IF Tabulated(self, examples, iterations)
    THEN { [k \in DOMAIN self \cup LoadAssigned |->
               IF k \in LoadAssigned THEN t.self[k] ELSE self[k]] :
           t \in {u \in LoadTable : u.examples = examples /\ u.iterations = iterations} }
    ELSE LoadOutcomes(self, examples, iterations)

(***************************************************************************)
(* add_examples                                                            *)
(***************************************************************************)
Outcome(self, error, ids) == [self |-> self, error |-> error, ids |-> ids]

\* (mutant) the sampler runs over every document initialised so far
RECURSIVE TrainNewDocsAll(_, _, _, _)
TrainNewDocsAll(selfs, d, doc_count, iterations) ==
    IF d >= doc_count THEN selfs
    ELSE TrainNewDocsAll(_train_docs(_init_docs(selfs, <<d>>), iterations, xrange(0, d + 1)),
                         d + 1, doc_count, iterations)

\* for d in xrange(last_doc_count, self._doc_count):
\*     self._init_docs([d]); self._train_docs(iterations, [d])
RECURSIVE TrainNewDocs(_, _, _, _)
TrainNewDocs(selfs, d, doc_count, iterations) ==
    IF d >= doc_count THEN selfs
    ELSE TrainNewDocs(_train_docs(_init_docs(selfs, <<d>>), iterations, <<d>>),
                      d + 1, doc_count, iterations)

\* (mutant) the masks of the old documents permit the new labels
MaskPaddingOnes(rows, cols) ==
    NdArray("int", <<rows, cols>>, [i \in Range0(rows) |-> [j \in Range0(cols) |-> 1]])

\* numpy.zeros((last_doc_count, self._label_count - last_label_count),
\* dtype=int): what the masks of the old documents get for the new labels
MaskPadding(rows, cols) == zeros2(rows, cols)

\* the label vectors of the new documents, as numpy.concatenate converts the
\* list of them
NewMasks(self, labels) ==
    array_of_rows([k \in 1..Len(labels) |-> _get_label_vector(self, labels[k])], "float")

\* add_examples, lines 257-275: the three count arrays are padded
AddCounts(self, last_label_count, last_doc_count, last_word_count) ==
    [self EXCEPT
        !._c_dl = concatenate(
                    concatenate(@, zeros2(last_doc_count,
                                          self._label_count - last_label_count), 1),
                    zeros2(self._doc_count - last_doc_count, self._label_count), 0),
        !._c_lw = concatenate(
                    concatenate(@, zeros2(last_label_count,
                                          self._word_count - last_word_count), 1),
                    zeros2(self._label_count - last_label_count, self._word_count), 0),
        !._c_l = concatenate1(@, zeros1(self._label_count - last_label_count))]

\* add_examples, line 256: self._w_dc.extend(...), the words being registered
AddDocs(self, docs) ==
    [self EXCEPT !._w_dc =
        [d \in Range0(Len0(@) + Len(docs)) |->
            IF d < Len0(@) THEN @[d] ELSE WordIds(self, docs[d - Len0(@) + 1])]]

\* add_examples, lines 277-281
AddTrain(self, last_doc_count, iterations) ==
    {Outcome(t, "", [lo |-> last_doc_count, hi |-> self._doc_count]) :
        t \in TrainNewDocs({self}, last_doc_count, self._doc_count, iterations)}

\* add_examples from the second concatenate (line 250) on
AddRows(self, docs, labels, last_label_count, last_doc_count, last_word_count, iterations) ==
    IF ~CanConcatenate(self._b_dl, NewMasks(self, labels), 0)
    THEN {Outcome(self, "ValueError", NoIds)}
    ELSE AddTrain(
            AddCounts(
                AddDocs(
                    RegisterWords(
                        [self EXCEPT !._b_dl = concatenate(@, NewMasks(self, labels), 0)],
                        Flatten(docs)),
                    docs),
                last_label_count, last_doc_count, last_word_count),
            last_doc_count, iterations)

\* add_examples from the first concatenate (line 246) on; self has the labels
\* registered and _doc_count increased
AddGrow(self, docs, labels, last_label_count, last_doc_count, last_word_count, iterations) ==
    IF ~CanConcatenate(self._b_dl,
                       MaskPadding(last_doc_count, self._label_count - last_label_count), 1)
    THEN {Outcome(self, "ValueError", NoIds)}
    ELSE AddRows([self EXCEPT !._b_dl =
                    concatenate(@, MaskPadding(last_doc_count,
                                               self._label_count - last_label_count), 1)],
                 docs, labels, last_label_count, last_doc_count, last_word_count, iterations)

\* add_examples(examples, iterations): the outcomes the call can end in, each
\* the classifier it leaves, the exception it raises ("" for none) and the
\* xrange it returns
AddOutcomes(self, examples, iterations) ==
    LET parsed == _parse_examples(examples)
    IN  IF ~HasAttrs(self)
        THEN {Outcome(self, "AttributeError", NoIds)}
        ELSE UNION { AddGrow([s EXCEPT !._doc_count = @ + Len(parsed.docs)],
                             parsed.docs, parsed.labels,
                             self._label_count, self._doc_count, self._word_count,
                             iterations) :
                     s \in RegisterLabels({self}, parsed.labels) }

(***************************************************************************)
(* Predictor                                                               *)
(***************************************************************************)
\* A[d] for the first axis of a numpy array: a negative index counts from the
\* end; -1 stands for IndexError
RowIndex(A, d) ==
    LET n == A.shape[1]
    IN  IF 0 <= d /\ d < n THEN d
        ELSE IF d < 0 /\ 0 - n <= d THEN d + n
        ELSE 0 - 1

\* _get_probabilities before the normalisation, times the denominator of alpha:
\* self._c_dl[d] + (self._b_dl[d] * self._alpha)
ProbNums(self, d) ==
    LET c == self._c_dl.data[RowIndex(self._c_dl, d)]
        b == self._b_dl.data[RowIndex(self._b_dl, d)]
    IN  [l \in DOMAIN c |-> self._alpha.den * c[l] + self._alpha.num * b[l]]

\* the exception _get_probabilities_with_label raises for doc d, "" for none
ProbError(self, d) ==
    IF ~HasAttrs(self) THEN "AttributeError"
    ELSE IF RowIndex(self._c_dl, d) < 0 \/ RowIndex(self._b_dl, d) < 0 THEN "IndexError"
    ELSE IF self._c_dl.shape[2] # self._b_dl.shape[2] THEN "ValueError"
    ELSE IF \E label \in DOMAIN self._label_to_id :
               self._label_to_id[label] >= self._c_dl.shape[2] THEN "IndexError"
    ELSE ""

Prediction(error, label, ratio) == [error |-> error, label |-> label, ratio |-> ratio]

\* (mutant) the probability itself is compared with the threshold, without
\* the division by 1 - default_prob
PredictFromUnnormalised(self, d, threshold) ==
    LET nums == ProbNums(self, d)
        id == self._label_to_id
        total == Sum0(nums)
        default == nums[id[DEFAULT_LABEL]]
        others == DOMAIN id \ {DEFAULT_LABEL}
        over == {l \in others : nums[id[l]] * threshold.den > threshold.num * total}
    IN  IF over = {}
        THEN {Prediction("", DEFAULT_LABEL, Rat(default, total))}
        ELSE {Prediction("", l, Rat(nums[id[l]], total)) :
                l \in {m \in over : \A k \in over : nums[id[k]] <= nums[id[m]]}}

\* _predict(d, threshold) when _get_probabilities_with_label raises nothing.
\* probs_l[label] is nums[id] / total, 1 - default_prob is rest / total, and
\* prob_l / (1 - default_prob) is nums[id] / rest.
\* over: the labels whose ratio exceeds the threshold; tied: those whose ratio
\* equals it exactly, where the rounding of the floating-point division
\* decides (the same way for all of them, their probabilities being equal).
\* The first label of the sorted order that passes is one of greatest
\* probability; sorted() leaves equal probabilities in dict order.
PredictFrom(self, d, threshold) ==
    LET nums == ProbNums(self, d)
        id == self._label_to_id
        default == nums[id[DEFAULT_LABEL]]
        rest == Sum0(nums) - default
        others == DOMAIN id \ {DEFAULT_LABEL}
        over == {l \in others : rest > 0 /\ nums[id[l]] * threshold.den > threshold.num * rest}
        tied == {l \in others : rest > 0 /\ nums[id[l]] > 0
                                 /\ nums[id[l]] * threshold.den = threshold.num * rest}
        First(passing) ==
            IF passing = {}
            THEN {Prediction("", DEFAULT_LABEL, Rat(default, rest))}
            ELSE {Prediction("", l, Rat(nums[id[l]], rest)) :
                    l \in {m \in passing : \A k \in passing : nums[id[k]] <= nums[id[m]]}}
    IN  First(over) \cup (IF tied = {} THEN {} ELSE First(over \cup tied))

\* _predict(d, threshold): the results the call can have
_predict(self, d, threshold) ==
    IF ProbError(self, d) # ""
    THEN {Prediction(ProbError(self, d), "", Rat(0, 1))}
    ELSE PredictFrom(self, d, threshold)

(***************************************************************************)
(* Serializer                                                              *)
(***************************************************************************)
NoModel == EmptyList

\* (mutant) the token assignments are left out of the mapping
to_dict_without_l_dc(self) ==
    [k \in ModelKeys |-> IF k = "_l_dc" THEN EmptyList ELSE self[k]]

\* to_dict: copy.deepcopy of the thirteen attributes
to_dict(self) == [k \in ModelKeys |-> self[k]]

\* from_dict: the classifier after the thirteen assignments
RECURSIVE CopyKeys(_, _, _)
CopyKeys(self, dict, keys) ==
    IF keys = {} THEN self
    ELSE LET k == CHOOSE x \in keys : TRUE
         IN  CopyKeys(SetAttr(self, k, dict[k]), dict, keys \ {k})

from_dict(self, dict) == CopyKeys(self, dict, ModelKeys)

(***************************************************************************)
(* The calls                                                               *)
(***************************************************************************)
Ret(op, i, error, label, ratio, ids, d) ==
    [op |-> op, inst |-> i, error |-> error, label |-> label, ratio |-> ratio,
     ids |-> ids, d |-> d]

\* numpy.random.seed(seed=4): the state of the generator after the call
seed(g) == 0

\* a load_examples or add_examples call: the classifier it ran on, what it
\* was given, the classifier it left, the exception and the ids it gave, and
\* the generator state it started in
Call(i, op, self, examples, iterations, out, error, ids) ==
    [inst |-> i, op |-> op, self |-> self, examples |-> examples,
     iterations |-> iterations, out |-> out, error |-> error, ids |-> ids, rng |-> rng]

\* the call drew from the generator: it reached the initializer with a
\* document, and numpy.random.multinomial draws for every category but the
\* last, so for none when _default is the only label
Draws(call) ==
    /\ call.error = ""
    /\ call.out._doc_count > (IF call.op = "add_examples" THEN call.self._doc_count ELSE 0)
    /\ call.out._label_count >= 2

\* the recorded calls that asked of the generator, in the state it is in, what
\* this call asks
Recorded(call) ==
    {k \in 1..Len(runs.first) :
        /\ Draws(runs.first[k])
        /\ runs.first[k].rng = call.rng
        /\ runs.first[k].op = call.op
        /\ runs.first[k].self = call.self
        /\ runs.first[k].examples = call.examples
        /\ runs.first[k].iterations = call.iterations}

\* set(...) of line 209 is iterated in an order the program does not control,
\* but in the same order whenever it is built from the same list: a load
\* numbers the labels as the recorded load of the same examples did
SameOrder(call) ==
    \A k \in 1..Len(runs.first) :
        ( /\ call.op = "load_examples"
          /\ runs.first[k].op = "load_examples"
          /\ runs.first[k].examples = call.examples ) =>
            call.out._label_to_id = runs.first[k].out._label_to_id

\* the generator is a function of its state: the call gets what the recorded
\* call got
Repeats(call) ==
    /\ SameOrder(call)
    /\ \A k \in Recorded(call) :
          /\ call.out = runs.first[k].out
          /\ call.error = runs.first[k].error
          /\ call.ids = runs.first[k].ids

\* the state of the generator after the call
Advance(call) ==
    IF ~Draws(call) THEN rng
    ELSE IF rng >= 0 /\ (runs.recording \/ Recorded(call) # {}) THEN rng + 1
    ELSE 0 - 1

\* the record of the runs after the call: the call is added to the run being
\* recorded; after the recording, the calls of the classifier that was
\* constructed anew are counted, and a call of another classifier is noted
Note(call) ==
    IF runs.recording THEN [runs EXCEPT !.first = Append(@, call)]
    ELSE IF runs.first = <<>> THEN runs
    ELSE IF call.inst = runs.first[1].inst /\ runs.done >= 0
         THEN [runs EXCEPT !.done = @ + 1]
         ELSE [runs EXCEPT !.alone = FALSE]

NoRuns == [recording |-> FALSE, first |-> <<>>, done |-> 0 - 1, alone |-> TRUE]

Init ==
    /\ classifiers = [i \in Inst |-> StringClassifier]
    /\ model = NoModel
    /\ ret = Ret("__init__", "a", "", "", Rat(0, 1), NoIds, 0)
    /\ rng = seed(0)
    /\ runs = NoRuns

\* predict_label only reads the classifier and every call overwrites ret, so a
\* load or an add that follows a prediction has the successors it has before
\* the prediction: they are explored from the states that hold the result of a
\* construction, a load or an add
AfterUpdate == ret.op # "predict_label"

load_examples(i, examples, iterations) ==
    /\ AfterUpdate
    /\ Len(_parse_examples(examples).docs) <= MaxDocs
    /\ \E s \in LoadResults(classifiers[i], examples, iterations) :
          /\ Repeats(Call(i, "load_examples", classifiers[i], examples, iterations, s, "", NoIds))
          /\ classifiers' = [classifiers EXCEPT ![i] = s]
          /\ rng' = Advance(Call(i, "load_examples", classifiers[i], examples, iterations, s, "", NoIds))
          /\ runs' = Note(Call(i, "load_examples", classifiers[i], examples, iterations, s, "", NoIds))
    /\ ret' = Ret("load_examples", i, "", "", Rat(0, 1), NoIds, 0)
    /\ UNCHANGED model

add_examples(i, examples, iterations) ==
    /\ AfterUpdate
    /\ HasAttrs(classifiers[i]) =>
          classifiers[i]._doc_count + Len(_parse_examples(examples).docs) <= MaxDocs
    /\ \E o \in AddOutcomes(classifiers[i], examples, iterations) :
          /\ Repeats(Call(i, "add_examples", classifiers[i], examples, iterations, o.self, o.error, o.ids))
          /\ classifiers' = [classifiers EXCEPT ![i] = o.self]
          /\ ret' = Ret("add_examples", i, o.error, "", Rat(0, 1), o.ids, 0)
          /\ rng' = Advance(Call(i, "add_examples", classifiers[i], examples, iterations, o.self, o.error, o.ids))
          /\ runs' = Note(Call(i, "add_examples", classifiers[i], examples, iterations, o.self, o.error, o.ids))
    /\ UNCHANGED model

predict_label(i, d, threshold) ==
    /\ \E p \in _predict(classifiers[i], d, threshold) :
          ret' = Ret("predict_label", i, p.error, p.label, p.ratio, NoIds, d)
    /\ UNCHANGED <<classifiers, model, rng, runs>>

Next ==
    \/ \E examples \in ExampleLists, iterations \in Iterations :
          load_examples("a", examples, iterations)
    \/ \E examples \in ExampleLists, iterations \in Iterations :
          add_examples("a", examples, iterations)
    \/ \E d \in DocIdInputs, threshold \in Thresholds :
          predict_label("a", d, threshold)

Spec == Init /\ [][Next]_vars

(***************************************************************************)
(* Export and import: classifier "a" is trained, exported at some point    *)
(* and imported into classifier "b"; both may be extended afterwards       *)
(***************************************************************************)
\* m = self.to_dict()
to_dict_call(i) ==
    /\ IF HasAttrs(classifiers[i])
       THEN /\ model' = to_dict(classifiers[i])
            /\ ret' = Ret("to_dict", i, "", "", Rat(0, 1), NoIds, 0)
       ELSE /\ model' = model
            /\ ret' = Ret("to_dict", i, "AttributeError", "", Rat(0, 1), NoIds, 0)
    /\ UNCHANGED <<classifiers, rng, runs>>

\* self.from_dict(m), m the mapping exported last
from_dict_call(i) ==
    /\ model # NoModel
    /\ classifiers' = [classifiers EXCEPT ![i] = from_dict(@, model)]
    /\ ret' = Ret("from_dict", i, "", "", Rat(0, 1), NoIds, 0)
    /\ UNCHANGED <<model, rng, runs>>

\* the lists given to the two classifiers: none, an untagged and a tagged example
SerialLists ==
    {<<>>, <<Example(<<"a">>, {})>>, <<Example(<<" ", "b">>, {"spam"})>>}

SerialNext ==
    \/ /\ model = NoModel
       /\ \E examples \in SerialLists, iterations \in Iterations :
             load_examples("a", examples, iterations)
    \/ \E i \in Inst, examples \in SerialLists, iterations \in Iterations :
          add_examples(i, examples, iterations)
    \/ \E i \in Inst : to_dict_call(i)
    \/ from_dict_call("b")

SerialSpec == Init /\ [][SerialNext]_vars

(***************************************************************************)
(* The example scenario: one load of the two examples, then predictions    *)
(***************************************************************************)
ScenarioExamples ==
    << Example(<<"buy", " ", "one", " ", "get", " ", "one", " ", "free">>, {"promo"}),
       Example(<<"happy", " ", "birthday", " ", "to", " ", "you">>, {}) >>

\* load_examples(examples, iterations=25)
LoadIterations == 25

ScenarioLoad ==
    /\ ~HasAttrs(classifiers["a"])
    /\ load_examples("a", ScenarioExamples, LoadIterations)

ScenarioPredict == \E d \in DocIdInputs : predict_label("a", d, Half)

ScenarioNext == ScenarioLoad \/ ScenarioPredict

ScenarioSpec == Init /\ [][ScenarioNext]_vars

(***************************************************************************)
(* Two runs: classifier "a" is loaded and extended in a run that is        *)
(* recorded; then it is constructed anew and given the calls of the        *)
(* recorded run again, while classifier "b" may be constructed or loaded   *)
(* in between                                                              *)
(***************************************************************************)
\* (mutant) the constructor leaves the generator as it finds it
__init__without_seed(i) ==
    /\ classifiers' = [classifiers EXCEPT ![i] = StringClassifier]
    /\ rng' = rng
    /\ runs' = [runs EXCEPT !.recording = FALSE,
                            !.done = IF runs.first # <<>> /\ i = runs.first[1].inst THEN 0 ELSE @,
                            !.alone = runs.first # <<>> /\ i = runs.first[1].inst]
    /\ ret' = Ret("__init__", i, "", "", Rat(0, 1), NoIds, 0)
    /\ UNCHANGED model

\* classifiers[i] = StringClassifier(): the constructor seeds the generator of
\* the process.  A construction ends the recorded run; the construction of the
\* classifier of that run starts its second run
__init__(i) ==
    /\ classifiers' = [classifiers EXCEPT ![i] = StringClassifier]
    /\ rng' = seed(rng)
    /\ runs' = [runs EXCEPT !.recording = FALSE,
                            !.done = IF runs.first # <<>> /\ i = runs.first[1].inst THEN 0 ELSE @,
                            !.alone = runs.first # <<>> /\ i = runs.first[1].inst]
    /\ ret' = Ret("__init__", i, "", "", Rat(0, 1), NoIds, 0)
    /\ UNCHANGED model

\* the calls a recorded run may hold
MaxCalls == 2

RunsLists == {<<Example(<<"a">>, {})>>, <<Example(<<" ", "b">>, {"spam"})>>}

\* as Init, and the calls that follow are recorded
RunsInit ==
    /\ classifiers = [i \in Inst |-> StringClassifier]
    /\ model = NoModel
    /\ ret = Ret("__init__", "a", "", "", Rat(0, 1), NoIds, 0)
    /\ rng = seed(0)
    /\ runs = [NoRuns EXCEPT !.recording = TRUE]

\* a call of the first run
FirstRun ==
    /\ runs.recording
    /\ Len(runs.first) < MaxCalls
    /\ \E examples \in RunsLists, iterations \in Iterations :
          \/ load_examples("a", examples, iterations)
          \/ add_examples("a", examples, iterations)

\* the second run makes the next call of the first
SecondRun ==
    /\ ~runs.recording
    /\ 0 <= runs.done /\ runs.done < Len(runs.first)
    /\ \/ /\ runs.first[runs.done + 1].op = "load_examples"
          /\ load_examples("a", runs.first[runs.done + 1].examples,
                           runs.first[runs.done + 1].iterations)
       \/ /\ runs.first[runs.done + 1].op = "add_examples"
          /\ add_examples("a", runs.first[runs.done + 1].examples,
                          runs.first[runs.done + 1].iterations)

\* another classifier is constructed or loaded during the second run
Between ==
    /\ ~runs.recording
    /\ 0 <= runs.done /\ runs.done < Len(runs.first)
    /\ \/ __init__("b")
       \/ load_examples("b", <<Example(<<" ", "b">>, {"spam"})>>, MaxIter)

RunsNext ==
    \/ FirstRun
    \/ runs.first # <<>> /\ runs.done < 0 /\ __init__("a")
    \/ SecondRun
    \/ Between

RunsSpec == RunsInit /\ [][RunsNext]_vars

(***************************************************************************)
(* Properties                                                              *)
(***************************************************************************)
\* the classifiers on which load_examples or from_dict has run
Loaded == {i \in Inst : HasAttrs(classifiers[i])}

\* the ids of the documents held in the document store
StoredDocs(self) == DOMAIN self._w_dc

\* sum over the rows of a matrix of column l
RECURSIVE ColumnSumTo(_, _, _)
ColumnSumTo(data, l, n) ==
    IF n = 0 THEN 0 ELSE data[n - 1][l] + ColumnSumTo(data, l, n - 1)

\* the labels predict_label(d, threshold) can return, "" standing for a raised
\* exception
PredictedLabels(self, d, threshold) == {p.label : p \in _predict(self, d, threshold)}

\* C1: for every document d in [0, doc_count), the doc-label counts of d sum to
\* the number of tokens of d
DocRowSumsHold(self) ==
    \A d \in Range0(self._doc_count) :
        /\ d \in DOMAIN self._c_dl.data
        /\ d \in DOMAIN self._w_dc
        /\ Sum0(self._c_dl.data[d]) = Len0(self._w_dc[d])

\* C1: after any sequence of load_examples and add_examples calls, for every
\* document d in [0, doc_count): sum over labels of _c_dl[d] = len(_w_dc[d])
C1_DocRowSums == \A i \in Loaded : DocRowSumsHold(classifiers[i])

LabelSumsHold(self) ==
    \A l \in Range0(self._label_count) :
        /\ l \in DOMAIN self._c_lw.data
        /\ l \in DOMAIN self._c_l.data
        /\ \A d \in DOMAIN self._c_dl.data : l \in DOMAIN self._c_dl.data[d]
        /\ Sum0(self._c_lw.data[l]) = self._c_l.data[l]
        /\ self._c_l.data[l] = ColumnSumTo(self._c_dl.data, l, Len0(self._c_dl.data))

\* C2: after any sequence of load_examples and add_examples calls, for every
\* label l: sum over words of _c_lw[l] = _c_l[l] = sum over documents of
\* _c_dl[d, l]
C2_LabelSums == \A i \in Loaded : LabelSumsHold(classifiers[i])

\* the statistics of the documents stored in old are those of the same
\* documents in new: same token assignments, same doc-label counts on the
\* labels of old, zero counts on the labels that new has in addition
DocsUntouched(old, new) ==
    \A d \in StoredDocs(old) :
        /\ d \in DOMAIN new._l_dc /\ new._l_dc[d] = old._l_dc[d]
        /\ d \in DOMAIN new._c_dl.data
        /\ \A l \in Range0(new._label_count) :
              /\ l \in DOMAIN new._c_dl.data[d]
              /\ new._c_dl.data[d][l] = (IF l < old._label_count THEN old._c_dl.data[d][l] ELSE 0)

\* C3: an add_examples call leaves, for every document stored before the call,
\* the token assignments unchanged, the doc-label counts unchanged on the
\* labels known before the call and zero on the labels the call introduces
C3_AddLeavesOldDocs ==
    [][ret'.op = "add_examples" =>
          \A i \in Loaded : DocsUntouched(classifiers[i], classifiers'[i])]_vars

\* some label is permitted by a document with id in lo..hi-1 and by no document
\* with a smaller id: the call that appended lo..hi-1 introduced it
IntroducesLabel(self, lo, hi) ==
    \E l \in Range0(self._label_count) :
        /\ \E d \in lo..(hi - 1) : self._b_dl.data[d][l] = 1
        /\ \A d \in Range0(lo) : self._b_dl.data[d][l] = 0 /\ self._c_dl.data[d][l] = 0

\* C3 witness: an add_examples call has appended documents to a model that had
\* some, and has introduced a label
C3_Witness ==
    /\ ret.op = "add_examples" /\ ret.error = ""
    /\ 0 < ret.ids.lo /\ ret.ids.lo < ret.ids.hi
    /\ IntroducesLabel(classifiers[ret.inst], ret.ids.lo, ret.ids.hi)

\* the labels other than _default that the mask of doc d permits
PermittedTags(self, d) ==
    {label \in DOMAIN self._label_to_id \ {DEFAULT_LABEL} :
        self._b_dl.data[d][self._label_to_id[label]] = 1}

\* C5: a document whose mask permits exactly _default and one tag L is
\* predicted as L at threshold 0.5, whatever the draws were
C5_SingleTagPredicted ==
    \A i \in Loaded :
        \A d \in StoredDocs(classifiers[i]) :
            \A L \in DOMAIN classifiers[i]._label_to_id :
                PermittedTags(classifiers[i], d) = {L}
                => PredictedLabels(classifiers[i], d, Half) = {L}

\* C6: an add_examples call does not change what predict_label(d, 0.5) returns
\* for any document d stored before the call
C6_AddKeepsPredictions ==
    [][ret'.op = "add_examples" =>
          \A i \in Loaded : \A d \in StoredDocs(classifiers[i]) :
              PredictedLabels(classifiers'[i], d, Half) = PredictedLabels(classifiers[i], d, Half)]_vars

\* C6 witness: an add_examples call has appended a document with a word that
\* no earlier document has, to a model that had documents
C6_Witness ==
    /\ ret.op = "add_examples" /\ ret.error = ""
    /\ 0 < ret.ids.lo /\ ret.ids.lo < ret.ids.hi
    /\ LET self == classifiers[ret.inst]
       IN  \E d \in ret.ids.lo..(ret.ids.hi - 1) : \E c \in DOMAIN self._w_dc[d] :
              \A e \in Range0(ret.ids.lo) : \A k \in DOMAIN self._w_dc[e] :
                  self._w_dc[e][k] # self._w_dc[d][c]

\* C7: predict_label never returns a confidence ratio whose divisor
\* 1 - default_prob is zero
C7_RatioDefined ==
    (ret.op = "predict_label" /\ ret.error = "") => ret.ratio.den # 0

\* the shapes numpy reports agree with the three counters
DimensionsAgree(self) ==
    /\ self._b_dl.shape = <<self._doc_count, self._label_count>>
    /\ self._c_dl.shape = <<self._doc_count, self._label_count>>
    /\ self._c_lw.shape = <<self._label_count, self._word_count>>
    /\ self._c_l.shape = <<self._label_count>>
    /\ Len0(self._w_dc) = self._doc_count
    /\ Len0(self._l_dc) = self._doc_count
    /\ \A d \in DOMAIN self._w_dc :
          d \in DOMAIN self._l_dc /\ Len0(self._l_dc[d]) = Len0(self._w_dc[d])

\* C8: after any sequence of load_examples and add_examples calls the masks,
\* the count matrices and the lists have the dimensions that doc_count,
\* label_count and word_count give
C8_Dimensions == \A i \in Loaded : DimensionsAgree(classifiers[i])

\* C9: predict_label(d, threshold) raises for every d outside [0, doc_count)
C9_OutOfRangeFails ==
    (/\ ret.op = "predict_label"
     /\ ret.inst \in Loaded
     /\ (ret.d < 0 \/ ret.d >= classifiers[ret.inst]._doc_count))
    => ret.error # ""

\* the model that load_examples leaves for the two examples of the scenario
ScenarioLoaded(self) ==
    /\ HasAttrs(self)
    /\ self._doc_count = 2
    /\ DOMAIN self._label_to_id = {DEFAULT_LABEL, "promo"}
    /\ Len0(self._w_dc) = 2 /\ Len0(self._w_dc[0]) = 5 /\ Len0(self._w_dc[1]) = 4
    /\ self._word_count = 8

\* C4 as stated: after the load of the two examples with 25 iterations,
\* predict_label(1, 0.5) returns "_default"
C4_UntaggedPredictedDefault ==
    ScenarioLoaded(classifiers["a"])
    => PredictedLabels(classifiers["a"], 1, Half) = {DEFAULT_LABEL}

\* C4 amended: after the load of the two examples with 25 iterations,
\* predict_label(1, 0.5) returns "promo" whatever the draws were: the model has
\* two labels, so the ratio of "promo" is promo / (1 - default) = 1 > 0.5
C4_UntaggedPredictedPromo ==
    ScenarioLoaded(classifiers["a"])
    => PredictedLabels(classifiers["a"], 1, Half) = {"promo"}

\* C4 witness: predict_label(1, 0.5) has returned on the loaded scenario model,
\* in which the sampler left every token of document 1 on "_default"
C4_Witness ==
    /\ ScenarioLoaded(classifiers["a"])
    /\ ret.op = "predict_label" /\ ret.d = 1 /\ ret.error = "" /\ ret.label = "promo"
    /\ classifiers["a"]._c_dl.data[1][classifiers["a"]._label_to_id[DEFAULT_LABEL]] = 4

\* the mapping to_dict returned holds the thirteen attributes of the
\* classifier it was called on, each with the value the classifier has
ExportFaithful ==
    (ret.op = "to_dict" /\ ret.error = "") =>
        /\ DOMAIN model = ModelKeys
        /\ \A k \in ModelKeys : model[k] = classifiers[ret.inst][k]

\* the classifier from_dict ran on holds the thirteen values of the mapping,
\* and predicts for every document what the exported model predicts
ImportFaithful ==
    ret.op = "from_dict" =>
        /\ ModelKeys \subseteq DOMAIN classifiers[ret.inst]
        /\ \A k \in ModelKeys : classifiers[ret.inst][k] = model[k]
        /\ \A d \in DocIdInputs :
              _predict(classifiers[ret.inst], d, Half) = _predict(model, d, Half)

\* a load or an add changes neither the exported mapping nor the other
\* classifier
CopiesIndependent ==
    ret'.op \in {"load_examples", "add_examples"} =>
        /\ model' = model
        /\ \A j \in Inst \ {ret'.inst} : classifiers'[j] = classifiers[j]

SecondRunAgrees ==
    (~runs.recording /\ runs.done >= 1) =>
        /\ classifiers["a"] = runs.first[runs.done].out
        /\ \A d \in DocIdInputs :
              _predict(classifiers["a"], d, Half) = _predict(runs.first[runs.done].out, d, Half)
        /\ (ret.inst = "a" /\ ret.op # "__init__") =>
              /\ ret.op = runs.first[runs.done].op
              /\ ret.error = runs.first[runs.done].error
              /\ ret.ids = runs.first[runs.done].ids

\* C11: two runs that construct a classifier and make the same load_examples
\* and add_examples calls, nothing else being constructed or used in between,
\* reach the same state after every call (token assignments, the three count
\* arrays and all else) and predict the same label for every document
C11_Determinism == runs.alone => SecondRunAgrees

\* C11 witness: the second run has repeated two calls that both drew from
\* the generator, alone
C11_Witness ==
    /\ ~runs.recording /\ runs.alone /\ runs.done = 2
    /\ Draws(runs.first[1]) /\ Draws(runs.first[2])
    /\ runs.first[2].op = "add_examples"
    /\ classifiers["a"] = runs.first[2].out

\* the examples of a list that have a token, in order
RECURSIVE Kept(_)
Kept(examples) ==
    IF examples = <<>> THEN <<>>
    ELSE (IF split(Head(examples).text) = <<>> THEN <<>> ELSE <<Head(examples)>>)
         \o Kept(Tail(examples))

\* an add_examples call whose examples are all dropped (or that is given
\* none), on a classifier that holds a document, raises nothing, returns an
\* empty range and leaves the classifier as it was
BlankAddIsNoOp ==
    \A examples \in ExampleLists, iterations \in Iterations :
        ( /\ Kept(examples) = <<>>
          /\ HasAttrs(classifiers["a"])
          /\ classifiers["a"]._b_dl.shape[1] > 0
          /\ add_examples("a", examples, iterations) ) =>
            /\ ret'.error = ""
            /\ ret'.ids.lo = ret'.ids.hi
            /\ classifiers' = classifiers

\* a call leaves what it leaves when given only the examples that have a
\* token: the dropped examples get no document id and register no label
BlankIsDropped ==
    \A examples \in ExampleLists, iterations \in Iterations :
        /\ load_examples("a", examples, iterations) =>
              /\ classifiers'["a"] \in LoadResults(classifiers["a"], Kept(examples), iterations)
              /\ classifiers'["a"]._doc_count = Len(Kept(examples))
        /\ (add_examples("a", examples, iterations) /\ ret'.error = "") =>
              /\ classifiers'["a"] \in
                    {o.self : o \in AddOutcomes(classifiers["a"], Kept(examples), iterations)}
              /\ ret'.ids.hi - ret'.ids.lo = Len(Kept(examples))

\* C12: in load_examples and add_examples an example whose text has no token
\* is dropped (no document id, no label registered on its account) and the
\* call raises no error, also when every example is dropped or none is given;
\* add_examples then returns an empty range and leaves the model unchanged
C12_BlankDropped == [][BlankAddIsNoOp /\ BlankIsDropped]_vars

\* document d was given with an empty label set: of Examples only the untagged
\* one gives the document of the single word "a"
GivenUntagged(self, d) ==
    /\ d \in StoredDocs(self)
    /\ <<"a">> \in DOMAIN self._word_to_id
    /\ self._w_dc[d] = List0(<<self._word_to_id[<<"a">>]>>)

\* the documents given with an empty label set that have a row in the mask
UntaggedRows(self) ==
    IF HasAttrs(self) /\ Len(self._b_dl.shape) = 2
    THEN {d \in Range0(self._b_dl.shape[1]) : GivenUntagged(self, d)}
    ELSE {}

\* C13 as stated: in every state a document given with an empty label set
\* permits every label the model knows, also those a later add_examples
\* introduced: its mask row is 1 for each of the _label_count labels
C13_UntaggedPermitsAll ==
    \A d \in UntaggedRows(classifiers["a"]) :
        \A l \in Range0(classifiers["a"]._label_count) :
            classifiers["a"]._b_dl.data[d][l] = 1

\* the untagged documents a call has just given permit every label known
\* when it returns
NewUntaggedPermitAll ==
    (ret'.op \in {"load_examples", "add_examples"} /\ ret'.error = "") =>
        \A d \in UntaggedRows(classifiers'["a"]) \ 
                   (IF ret'.op = "add_examples" THEN UntaggedRows(classifiers["a"]) ELSE {}) :
            \A l \in Range0(classifiers'["a"]._label_count) :
                classifiers'["a"]._b_dl.data[d][l] = 1

\* add_examples leaves the mask row of an older untagged document as it is and
\* gives it 0 for every label the call introduces
OldUntaggedKeepMask ==
    ret'.op = "add_examples" =>
        \A d \in UntaggedRows(classifiers["a"]) :
            /\ d \in UntaggedRows(classifiers'["a"])
            /\ classifiers'["a"]._b_dl.shape[2] = classifiers'["a"]._label_count
            /\ \A l \in Range0(classifiers'["a"]._label_count) :
                  classifiers'["a"]._b_dl.data[d][l] =
                      IF l < classifiers["a"]._label_count
                      THEN classifiers["a"]._b_dl.data[d][l]
                      ELSE 0

\* C13 (amended): a document given with an empty label set permits all labels
\* the model knows when the call that gave it returns (mask row all ones);
\* a later add_examples leaves that row as it is and extends it with 0 for
\* every label it introduces
C13_UntaggedPermitsKnown == [][NewUntaggedPermitAll /\ OldUntaggedKeepMask]_vars

\* C13 witness: an add has introduced a label that an older untagged
\* document does not permit
C13_Witness ==
    /\ ret.op = "add_examples" /\ ret.error = ""
    /\ \E d \in UntaggedRows(classifiers["a"]) :
          /\ classifiers["a"]._b_dl.data[d][0] = 1
          /\ \E l \in Range0(classifiers["a"]._label_count) :
                classifiers["a"]._b_dl.data[d][l] = 0

(***************************************************************************)
(* Loads over models of every kind: classifier "a" is loaded and extended  *)
(* with a few lists, in any order                                          *)
(***************************************************************************)
ResetLists ==
    { <<>>,
      <<Example(<<"a">>, {})>>,
      <<Example(<<" ", "b">>, {"spam"})>>,
      <<Example(<<"a", " ", "b">>, {"promo"}), Example(<<" ">>, {"spam"})>>,
      <<Example(<<" ", "b">>, {"spam"}), Example(<<"a">>, {})>> }

ResetNext ==
    \/ \E examples \in ResetLists, iterations \in Iterations :
          load_examples("a", examples, iterations)
    \/ \E examples \in ResetLists, iterations \in Iterations :
          add_examples("a", examples, iterations)

ResetSpec == Init /\ [][ResetNext]_vars

\* f numbers the elements of its domain 0, 1, ... without gaps or repeats
IsNumbering(f, count) ==
    /\ count = Cardinality(DOMAIN f)
    /\ \A x \in DOMAIN f : f[x] \in Range0(count)
    /\ \A x \in DOMAIN f, y \in DOMAIN f : f[x] = f[y] => x = y

\* the tokens of self that satisfy the conditions: of document d or any (-1),
\* of word w or any, assigned label l
TokensWith(self, d, w, l) ==
    {t \in UNION {{<<e, c>> : c \in DOMAIN self._w_dc[e]} : e \in DOMAIN self._w_dc} :
        /\ d >= 0 => t[1] = d
        /\ w >= 0 => self._w_dc[t[1]][t[2]] = w
        /\ self._l_dc[t[1]][t[2]] = l}

\* self holds the documents of the examples and nothing else: as many
\* documents as examples with a token, the words and the labels of those
\* documents numbered without gaps, every document the words of its example,
\* and the three count arrays count the token assignments of these documents
HoldsExactly(self, examples) ==
    /\ HasAttrs(self)
    /\ self._doc_count = Len(Kept(examples))
    /\ DOMAIN self._word_to_id =
          UNION {{split(Kept(examples)[k].text)[c] :
                     c \in 1..Len(split(Kept(examples)[k].text))} : k \in 1..Len(Kept(examples))}
    /\ IsNumbering(self._word_to_id, self._word_count)
    /\ DOMAIN self._label_to_id =
          {DEFAULT_LABEL} \cup UNION {Kept(examples)[k].labels : k \in 1..Len(Kept(examples))}
    /\ IsNumbering(self._label_to_id, self._label_count)
    /\ DOMAIN self._w_dc = Range0(Len(Kept(examples)))
    /\ DOMAIN self._l_dc = Range0(Len(Kept(examples)))
    /\ \A d \in Range0(Len(Kept(examples))) :
          /\ DOMAIN self._w_dc[d] = Range0(Len(split(Kept(examples)[d + 1].text)))
          /\ DOMAIN self._l_dc[d] = DOMAIN self._w_dc[d]
          /\ \A c \in DOMAIN self._w_dc[d] :
                /\ self._w_dc[d][c] = self._word_to_id[split(Kept(examples)[d + 1].text)[c + 1]]
                /\ self._l_dc[d][c] \in Range0(self._label_count)
    /\ self._c_dl.shape = <<self._doc_count, self._label_count>>
    /\ self._c_lw.shape = <<self._label_count, self._word_count>>
    /\ self._c_l.shape = <<self._label_count>>
    /\ \A l \in Range0(self._label_count) :
          /\ self._c_l.data[l] = Cardinality(TokensWith(self, 0 - 1, 0 - 1, l))
          /\ \A d \in Range0(self._doc_count) :
                self._c_dl.data[d][l] = Cardinality(TokensWith(self, d, 0 - 1, l))
          /\ \A w \in Range0(self._word_count) :
                self._c_lw.data[l][w] = Cardinality(TokensWith(self, 0 - 1, w, l))

\* C14: load_examples is a full reset: after load_examples(E) on a classifier
\* in any state, doc_count is the number of examples of E with a token, the
\* word map holds exactly the words of those documents, the label map exactly
\* "_default" and their labels, and no document, token assignment or count of
\* the model held before remains
C14_LoadResets ==
    [][\A examples \in ResetLists, iterations \in Iterations :
          load_examples("a", examples, iterations) =>
              HoldsExactly(classifiers'["a"], examples)]_vars

\* C14 witness: a load has replaced a model of several labels, which an
\* earlier call drew from the generator for, by one whose only label is
\* "_default"
C14_Witness ==
    /\ ret.op = "load_examples"
    /\ rng < 0
    /\ classifiers["a"]._label_count = 1
    /\ classifiers["a"]._doc_count = 1

\* the call returned xrange(lo, hi) for the documents it appended: lo the
\* former _doc_count, hi the new one, as many ids as examples with a token,
\* each id a document of the classifier afterwards, and the documents held
\* before under the ids they had
ReturnsNewRange(self, after, examples, result) ==
    /\ result.error = ""
    /\ result.ids = [lo |-> self._doc_count, hi |-> after._doc_count]
    /\ result.ids.hi - result.ids.lo = Len(Kept(examples))
    /\ \A d \in result.ids.lo..(result.ids.hi - 1) :
          /\ d \in StoredDocs(after)
          /\ ProbError(after, d) = ""
    /\ \A d \in StoredDocs(self) : d \in StoredDocs(after) /\ after._w_dc[d] = self._w_dc[d]

\* C15: add_examples returns exactly the contiguous id range
\* [old doc_count, new doc_count), whose length is the number of added
\* examples with a token; every id of it is a valid document id afterwards and
\* the ids of the documents held before are neither reused nor shifted
C15_AddReturnsRange ==
    [][\A examples \in ResetLists, iterations \in Iterations :
          (HasAttrs(classifiers["a"]) /\ add_examples("a", examples, iterations)) =>
              ReturnsNewRange(classifiers["a"], classifiers'["a"], examples, ret')]_vars

\* every token of the documents docs is assigned a label that the mask of its
\* document permits
AssignedPermitted(self, docs) ==
    \A d \in docs \cap DOMAIN self._l_dc :
        \A c \in DOMAIN self._l_dc[d] :
            self._b_dl.data[d][self._l_dc[d][c]] = 1

\* C16: the initializer assigns only permitted labels: after _init_docs, as
\* run by load_examples and by add_examples (seen in the calls with 0
\* iterations, where no sampler pass follows), every token of a document it
\* initialised has a label l with _b_dl[d, l] = 1
C16_InitPermitted ==
    [][\A examples \in ExampleLists :
          /\ load_examples("a", examples, 0) =>
                AssignedPermitted(classifiers'["a"], StoredDocs(classifiers'["a"]))
          /\ (add_examples("a", examples, 0) /\ ret'.error = "") =>
                AssignedPermitted(classifiers'["a"],
                                  StoredDocs(classifiers'["a"]) \ StoredDocs(classifiers["a"]))]_vars

\* no entry of the three count arrays is negative
NonNegative(self) ==
    /\ \A d \in DOMAIN self._c_dl.data : \A l \in DOMAIN self._c_dl.data[d] :
          self._c_dl.data[d][l] >= 0
    /\ \A l \in DOMAIN self._c_lw.data : \A w \in DOMAIN self._c_lw.data[l] :
          self._c_lw.data[l][w] >= 0
    /\ \A l \in DOMAIN self._c_l.data : self._c_l.data[l] >= 0

\* the token assignments of doc d exist, one for every token
Initialised(self, d) ==
    /\ d \in DOMAIN self._l_dc
    /\ d \in DOMAIN self._w_dc
    /\ DOMAIN self._l_dc[d] = DOMAIN self._w_dc[d]

\* the token loop of _infer_docs at token c of doc d: the three entries of the
\* token are at least 1 before the decrement of line 138, and no entry is
\* negative after it
TokenSafe(self, d, c) ==
    /\ self._c_dl.data[d][self._l_dc[d][c]] >= 1
    /\ self._c_lw.data[self._l_dc[d][c]][self._w_dc[d][c]] >= 1
    /\ self._c_l.data[self._l_dc[d][c]] >= 1
    /\ NonNegative(_update_counting_matrices(self, d, self._w_dc[d][c], self._l_dc[d][c], 0 - 1))

\* the token loop of _infer_docs for doc d from token c on, from each of selfs
RECURSIVE InferDocSafe(_, _, _)
InferDocSafe(selfs, d, c) ==
    IF selfs = {} THEN TRUE
    ELSE IF \E s \in selfs : ~Initialised(s, d) THEN FALSE
    ELSE IF c = Len0((CHOOSE s \in selfs : TRUE)._w_dc[d]) THEN \A s \in selfs : NonNegative(s)
    ELSE /\ \A s \in selfs : TokenSafe(s, d, c)
         /\ InferDocSafe(UNION {InferToken(s, d, c) : s \in selfs}, d, c + 1)

\* _infer_docs(doc_ids) from each of selfs
RECURSIVE _infer_docs_safe(_, _)
_infer_docs_safe(selfs, doc_ids) ==
    IF doc_ids = <<>> THEN TRUE
    ELSE /\ InferDocSafe(selfs, Head(doc_ids), 0)
         /\ _infer_docs_safe(InferDoc(selfs, Head(doc_ids), 0), Tail(doc_ids))

\* _train_docs(iterations, doc_ids) from each of selfs
RECURSIVE _train_docs_safe(_, _, _)
_train_docs_safe(selfs, iterations, doc_ids) ==
    IF iterations = 0 THEN \A s \in selfs : NonNegative(s)
    ELSE /\ _infer_docs_safe(selfs, doc_ids)
         /\ \/ _infer_docs(selfs, doc_ids) = selfs
            \/ _train_docs_safe(_infer_docs(selfs, doc_ids), iterations - 1, doc_ids)

\* load_examples(examples, iterations), lines 232-233, for every numbering of
\* the labels
LoadSafe(examples, iterations) ==
    \A label_to_id \in Numberings({DEFAULT_LABEL} \cup SeqUnion(_parse_examples(examples).labels)) :
        _train_docs_safe(
            _init_docs({LoadSetup(StringClassifier, _parse_examples(examples).docs,
                                  _parse_examples(examples).labels, label_to_id)},
                       xrange(0, Len(_parse_examples(examples).docs))),
            iterations, xrange(0, Len(_parse_examples(examples).docs)))

\* the loop of add_examples, lines 277-279, from doc d on, from each of selfs
RECURSIVE TrainNewDocsSafe(_, _, _, _)
TrainNewDocsSafe(selfs, d, doc_count, iterations) ==
    IF d >= doc_count THEN TRUE
    ELSE /\ _train_docs_safe(_init_docs(selfs, <<d>>), iterations, <<d>>)
         /\ TrainNewDocsSafe(_train_docs(_init_docs(selfs, <<d>>), iterations, <<d>>),
                             d + 1, doc_count, iterations)

\* add_examples, lines 246-275, when neither concatenate raises: the
\* classifier before the loop of line 277; self has the labels registered and
\* _doc_count increased
AddPrepared(self, docs, labels, last_label_count, last_doc_count, last_word_count) ==
    IF ~CanConcatenate(self._b_dl,
                       MaskPadding(last_doc_count, self._label_count - last_label_count), 1)
    THEN {}
    ELSE IF ~CanConcatenate(
                concatenate(self._b_dl,
                            MaskPadding(last_doc_count, self._label_count - last_label_count), 1),
                NewMasks(self, labels), 0)
    THEN {}
    ELSE {AddCounts(
            AddDocs(
                RegisterWords(
                    [self EXCEPT !._b_dl =
                        concatenate(
                            concatenate(@, MaskPadding(last_doc_count,
                                                       self._label_count - last_label_count), 1),
                            NewMasks(self, labels), 0)],
                    Flatten(docs)),
                docs),
            last_label_count, last_doc_count, last_word_count)}

\* add_examples(examples, iterations) on self
AddSafe(self, examples, iterations) ==
    HasAttrs(self) =>
        \A s \in RegisterLabels({self}, _parse_examples(examples).labels) :
            \A p \in AddPrepared([s EXCEPT !._doc_count = @ + Len(_parse_examples(examples).docs)],
                                 _parse_examples(examples).docs, _parse_examples(examples).labels,
                                 self._label_count, self._doc_count, self._word_count) :
                TrainNewDocsSafe({p}, self._doc_count, p._doc_count, iterations)

\* every load_examples call
LoadsSafe == \A examples \in ResetLists, iterations \in Iterations : LoadSafe(examples, iterations)

\* C17: within load_examples and add_examples the sampler runs only on
\* documents whose token assignments were initialised, and the leave-one-out
\* decrement never drives a count negative: in the state the classifier is in,
\* and in every state a call made in it passes through (between a token's
\* decrement and its re-increment too), no entry of _c_dl, _c_lw and _c_l is
\* negative, and the three entries of a token are at least 1 just before they
\* are decremented
C17_CountsNeverNegative ==
    /\ HasAttrs(classifiers["a"]) => NonNegative(classifiers["a"])
    /\ LoadsSafe
    /\ \A examples \in ResetLists, iterations \in Iterations :
          (HasAttrs(classifiers["a"]) /\
           classifiers["a"]._doc_count + Len(_parse_examples(examples).docs) <= MaxDocs) =>
              AddSafe(classifiers["a"], examples, iterations)

\* C17 witness: the sampler has moved a token of a loaded document off the
\* label the initializer gave it (in load_examples that is the last label)
C17_Witness ==
    /\ ret.op = "load_examples"
    /\ classifiers["a"]._doc_count = 1
    /\ classifiers["a"]._label_count = 2
    /\ \E c \in DOMAIN classifiers["a"]._l_dc[0] : classifiers["a"]._l_dc[0][c] = 0

\* the loop of add_examples, lines 277-279, from doc d on, from each of selfs:
\* whenever the sampler is about to run (iterations > 0) every document up to
\* doc_count has its token assignments
RECURSIVE TrainNewDocsOrdered(_, _, _, _)
TrainNewDocsOrdered(selfs, d, doc_count, iterations) ==
    IF d >= doc_count THEN TRUE
    ELSE /\ iterations > 0 =>
               \A s \in _init_docs(selfs, <<d>>) : \A e \in Range0(doc_count) : Initialised(s, e)
         /\ TrainNewDocsOrdered(_train_docs(_init_docs(selfs, <<d>>), iterations, <<d>>),
                                d + 1, doc_count, iterations)

\* add_examples(examples, iterations) on self
AddOrdered(self, examples, iterations) ==
    HasAttrs(self) =>
        \A s \in RegisterLabels({self}, _parse_examples(examples).labels) :
            \A p \in AddPrepared([s EXCEPT !._doc_count = @ + Len(_parse_examples(examples).docs)],
                                 _parse_examples(examples).docs, _parse_examples(examples).labels,
                                 self._label_count, self._doc_count, self._word_count) :
                TrainNewDocsOrdered({p}, self._doc_count, p._doc_count, iterations)

\* C18: inside add_examples the initializer runs over the whole range of the
\* appended documents before the sampler runs over that range: in whatever
\* state add_examples is called, no token of a new document is resampled
\* before every new document of the call has been initialised
C18_InitBeforeSampling ==
    \A examples \in ResetLists, iterations \in Iterations :
        AddOrdered(classifiers["a"], examples, iterations)

\* C19: classifiers do not interfere through the random generator: when
\* another classifier was constructed, or loaded, between the calls of the
\* second run, the second run still reaches after every call the state the
\* first run reached, and predicts the same
C19_InstancesIndependent == ~runs.alone => SecondRunAgrees

\* thresholds predict_label is asked with: 0, 0.5 and 1
MaskThresholds == {Rat(0, 1), Half, Rat(1, 1)}

\* the documents of self that have a row in the counts and in the mask
Predictable(self) == {d \in StoredDocs(self) : d >= 0 /\ ProbError(self, d) = ""}

\* document d has no count under a label its mask disallows, and
\* predict_label(d, threshold) returns "_default" or a label its mask permits
MaskRespected(self, d) ==
    /\ \A l \in DOMAIN self._b_dl.data[d] :
          self._b_dl.data[d][l] = 0 => self._c_dl.data[d][l] = 0
    /\ \A threshold \in MaskThresholds :
          PredictedLabels(self, d, threshold) \subseteq {DEFAULT_LABEL} \cup PermittedTags(self, d)

\* C20: predictions respect the permitted-label mask: after any sequence of
\* load_examples and add_examples calls, with any iteration counts (0 too),
\* every document has count 0 under every label its mask disallows, and
\* predict_label returns "_default" or a label the mask permits, for every
\* threshold
C20_MaskRespected ==
    \A i \in Loaded : \A d \in Predictable(classifiers[i]) : MaskRespected(classifiers[i], d)

====
